---------------------------- MODULE Spec2Model ----------------------------
(***************************************************************************)
(* Model of drive-backup.py: the streaming pipelines (mysqldump | gzip |   *)
(* rclone rcat, tar | rclone rcat), the retention pass and the run         *)
(* orchestrator.  External processes are modelled at the level of their    *)
(* pipes: every stage is an OS process that reads its standard input,      *)
(* writes its standard output and its captured error stream, and exits.    *)
(***************************************************************************)
EXTENDS Integers, Sequences, FiniteSets, TLC

(* ---------------------------------------------------------------------- *)
(* Bounds of the model                                                     *)
(* ---------------------------------------------------------------------- *)
\* largest value of the configured retention limit MAX_BACKUPS
MaxLimit == 1
\* largest number of directories the remote listing returns
MaxListing == 3
\* number of configured BACKUP_TARGETS
NumTargets == 2
\* units of data a producer stage writes to its standard output at most
MaxData == 1
\* capacity, in units, of an OS pipe
PipeCap == 1
\* units a stage writes to its error stream at most: one more than fits
MaxErr == PipeCap + 1

(* ---------------------------------------------------------------------- *)
(* Names of remote directories: strings as sequences of character codes   *)
(* ---------------------------------------------------------------------- *)
\* 'backup_' : the prefix of line 185 and of CURRENT_BACKUP_REMOTE_DIR
Prefix == <<98, 97, 99, 107, 117, 112, 95>>

\* TIMESTAMP of this run; fixed width, digits only (two digits stand for
\* the fourteen of %Y%m%d_%H%M%S)
TIMESTAMP == <<49, 48>>

\* last path segment of CURRENT_BACKUP_REMOTE_DIR: backup_<TIMESTAMP>
CurrentName == Prefix \o TIMESTAMP

\* directory names the remote base path may hold:
\*   backup_01 (older), backup_20 (later), backup_10 (this run), backup_
\*   (bare prefix), backup (shorter than the prefix), Backup_01 (other case)
NameUniverse ==
    { Prefix \o <<48, 49>>,
      Prefix \o <<50, 48>>,
      CurrentName,
      Prefix,
      <<98, 97, 99, 107, 117, 112>>,
      <<66, 97, 99, 107, 117, 112, 95, 48, 49>> }

\* str.startswith
StartsWith(s, p) ==
    /\ Len(s) >= Len(p)
    /\ SubSeq(s, 1, Len(p)) = p

\* Python's str ordering: code point by code point, a proper prefix first
RECURSIVE StrLess(_, _)
StrLess(a, b) ==
    IF a = <<>> THEN b # <<>>
    ELSE IF b = <<>> THEN FALSE
    ELSE IF Head(a) # Head(b) THEN Head(a) < Head(b)
    ELSE StrLess(Tail(a), Tail(b))

\* insert x into the sorted sequence s after every element not greater
\* than it (list.sort is stable)
RECURSIVE InsertSorted(_, _)
InsertSorted(x, s) ==
    IF s = <<>> THEN <<x>>
    ELSE IF StrLess(x, Head(s)) THEN <<x>> \o s
    ELSE <<Head(s)>> \o InsertSorted(x, Tail(s))

\* backup_dirs.sort(key=lambda x: x['Name'])
RECURSIVE SortByName(_)
SortByName(s) ==
    IF s = <<>> THEN <<>>
    ELSE InsertSorted(s[Len(s)], SortByName(SubSeq(s, 1, Len(s) - 1)))

\* [d for d in dirs if d['Name'].startswith('backup_')]
RECURSIVE FilterBackupDirs(_)
FilterBackupDirs(dirs) ==
    IF dirs = <<>> THEN <<>>
    ELSE IF StartsWith(Head(dirs), Prefix)
         THEN <<Head(dirs)>> \o FilterBackupDirs(Tail(dirs))
         ELSE FilterBackupDirs(Tail(dirs))

\* ToDelete with the slice taken from the wrong end: the newest entries
ToDeleteNewest(backup_dirs, limit) ==
    SubSeq(backup_dirs, limit + 1, Len(backup_dirs))

\* ToDelete with the slice one entry too long (a slice stops at the end)
ToDeleteOffByOne(backup_dirs, limit) ==
    IF limit = 0
    THEN backup_dirs
    ELSE SubSeq(backup_dirs, 1, Len(backup_dirs) - limit + 1)

\* backup_dirs[:len(backup_dirs) - MAX_BACKUPS], taken when len > MAX_BACKUPS
ToDelete(backup_dirs, limit) ==
    SubSeq(backup_dirs, 1, Len(backup_dirs) - limit)

\* what lsjson --dirs-only may return: the directories in any order
Listings ==
    UNION { { s \in [1..n -> NameUniverse] :
                \A i, j \in 1..n : i # j => s[i] # s[j] } : n \in 0..MaxListing }

(* ---------------------------------------------------------------------- *)
(* State                                                                   *)
(* ---------------------------------------------------------------------- *)
VARIABLES
    pc,            \* position of the parent (the Python process)
    exitStatus,    \* exit status of the Python process, -1 while it runs
    maxBackups,    \* MAX_BACKUPS, the configured retention limit
    tempDir,       \* TEMP_DIR exists
    logFile,       \* lines of LOG_FILE_PATH (inside TEMP_DIR)
    printed,       \* lines echoed to standard output by log()
    calls,         \* rclone commands run to completion (subprocess.run)
    exc,           \* message of the exception being propagated, or "none"
    proc,          \* the Popen children
    outPipe,       \* units held by the stdout pipe of each child
    errPipe,       \* units held by the stderr pipe of each child
    parentOut,     \* children whose .stdout the parent still holds open
    parentWrite,   \* children whose stdout write end the parent holds open
    valid_targets_count,  \* local of backup_files_stream
    stageFailed,   \* history: a stage of a job of this run has exited with
                   \* a status outside those its pipeline tolerates
    dirs,          \* local of manage_retention: parsed lsjson output
    to_delete      \* local of manage_retention: entries still to purge

vars == <<pc, exitStatus, maxBackups, tempDir, logFile, printed, calls, exc,
          proc, outPipe, errPipe, parentOut, parentWrite,
          valid_targets_count, stageFailed, dirs, to_delete>>

procVars == <<proc, outPipe, errPipe, parentOut, parentWrite>>
retVars == <<dirs, to_delete>>

(* ---------------------------------------------------------------------- *)
(* Child processes and their pipes                                         *)
(* ---------------------------------------------------------------------- *)
DbStages == {"p1_dump", "p2_gzip", "p3_rclone"}
FileStages == {"p1_tar", "p2_rclone"}
Stages == DbStages \cup FileStages

\* stages that read no pipe (the head of a pipeline)
Producers == {"p1_dump", "p1_tar"}
\* stages whose stdout is the stdin of another stage
Piped == {"p1_dump", "p2_gzip", "p1_tar"}
\* stages that read a pipe
Readers == {"p2_gzip", "p3_rclone", "p2_rclone"}

\* stdin=<upstream>.stdout in the Popen calls
Upstream(p) ==
    CASE p = "p2_gzip" -> "p1_dump"
      [] p = "p3_rclone" -> "p2_gzip"
      [] p = "p2_rclone" -> "p1_tar"

Downstream(p) ==
    CASE p = "p1_dump" -> "p2_gzip"
      [] p = "p2_gzip" -> "p3_rclone"
      [] p = "p1_tar" -> "p2_rclone"

\* exit codes a stage chooses itself
ExitCodes == {0, 1, 2}
\* Popen.returncode of a child killed by signal N is -N
SIGKILL == 9
SIGPIPE == 13

NoProc == [st |-> "none", rc |-> 0, nout |-> 0, nerr |-> 0, buf |-> 0]
Fresh == [st |-> "run", rc |-> 0, nout |-> 0, nerr |-> 0, buf |-> 0]
Exited(code) == [st |-> "exit", rc |-> code, nout |-> 0, nerr |-> 0, buf |-> 0]

Alive(p) == proc[p].st \notin {"none", "exit"}

\* some process holds the read end of the stdout pipe of p: the parent
\* until it closes p.stdout, the downstream child while it lives
ReadEndOpen(p) ==
    \/ p \in parentOut
    \/ Alive(Downstream(p))

\* a read of the stdin of p returns end-of-stream: the pipe is empty and
\* no process holds its write end, neither the upstream child nor the
\* parent
AtEof(p) ==
    /\ outPipe[Upstream(p)] = 0
    /\ proc[Upstream(p)].st = "exit"
    /\ Upstream(p) \notin parentWrite

\* the stage has something to write to its standard output
HasOutput(p) ==
    IF p \in Producers THEN proc[p].nout < MaxData ELSE proc[p].buf > 0

\* write(1, ...) of a stage: SIGPIPE when nobody holds the read end, the
\* unit is accepted when the pipe has room, the stage blocks otherwise
StageWriteOut(p) ==
    /\ p \in Piped
    /\ proc[p].st \in {"run", "wout"}
    /\ HasOutput(p)
    /\ IF ~ReadEndOpen(p)
       THEN /\ proc' = [proc EXCEPT ![p] = Exited(-SIGPIPE)]
            /\ UNCHANGED outPipe
       ELSE IF outPipe[p] < PipeCap
       THEN /\ outPipe' = [outPipe EXCEPT ![p] = @ + 1]
            /\ proc' = [proc EXCEPT ![p].st = "run",
                           ![p].nout = IF p \in Producers THEN @ + 1 ELSE @,
                           ![p].buf = IF p \in Producers THEN @ ELSE @ - 1]
       ELSE /\ proc[p].st = "run"
            /\ proc' = [proc EXCEPT ![p].st = "wout"]
            /\ UNCHANGED outPipe
    /\ UNCHANGED <<pc, exitStatus, maxBackups, tempDir, logFile, printed,
                   calls, exc, errPipe, parentOut, parentWrite,
                   valid_targets_count, stageFailed, dirs, to_delete>>

\* write(2, ...) of a stage (stderr=subprocess.PIPE): the parent holds the
\* read end, so the stage blocks when the pipe is full
StageWriteErr(p) ==
    /\ proc[p].st \in {"run", "werr"}
    /\ proc[p].nerr < MaxErr
    /\ IF errPipe[p] < PipeCap
       THEN /\ errPipe' = [errPipe EXCEPT ![p] = @ + 1]
            /\ proc' = [proc EXCEPT ![p].st = "run", ![p].nerr = @ + 1]
       ELSE /\ proc[p].st = "run"
            /\ proc' = [proc EXCEPT ![p].st = "werr"]
            /\ UNCHANGED errPipe
    /\ UNCHANGED <<pc, exitStatus, maxBackups, tempDir, logFile, printed,
                   calls, exc, outPipe, parentOut, parentWrite,
                   valid_targets_count, stageFailed, dirs, to_delete>>

\* read(0, ...) of a stage: takes a unit, returns end-of-stream, or blocks
\* while the pipe is empty and its writer lives
StageRead(p) ==
    /\ p \in Readers
    /\ proc[p].st \in {"run", "rd"}
    /\ proc[p].buf = 0
    /\ IF outPipe[Upstream(p)] > 0
       THEN /\ outPipe' = [outPipe EXCEPT ![Upstream(p)] = @ - 1]
            /\ proc' = [proc EXCEPT ![p].st = "run",
                           ![p].buf = IF p \in Piped THEN 1 ELSE 0]
       ELSE IF AtEof(p)
       THEN /\ proc[p].st = "rd"
            /\ proc' = [proc EXCEPT ![p].st = "run"]
            /\ UNCHANGED outPipe
       ELSE /\ proc[p].st = "run"
            /\ proc' = [proc EXCEPT ![p].st = "rd"]
            /\ UNCHANGED outPipe
    /\ UNCHANGED <<pc, exitStatus, maxBackups, tempDir, logFile, printed,
                   calls, exc, errPipe, parentOut, parentWrite,
                   valid_targets_count, stageFailed, dirs, to_delete>>

\* exit(code) of a stage: a reader exits 0 only after end-of-stream with
\* everything written; any stage may give up with a nonzero code
StageExit(p) ==
    /\ proc[p].st = "run"
    /\ \E code \in ExitCodes :
        /\ (code = 0 /\ p \in Readers) => (AtEof(p) /\ proc[p].buf = 0)
        /\ proc' = [proc EXCEPT ![p] = Exited(code)]
    /\ UNCHANGED <<pc, exitStatus, maxBackups, tempDir, logFile, printed,
                   calls, exc, outPipe, errPipe, parentOut, parentWrite,
                   valid_targets_count, stageFailed, dirs, to_delete>>

\* the stage is killed from outside (kill -9, the OOM killer)
StageKill(p) ==
    /\ Alive(p)
    /\ proc' = [proc EXCEPT ![p] = Exited(-SIGKILL)]
    /\ UNCHANGED <<pc, exitStatus, maxBackups, tempDir, logFile, printed,
                   calls, exc, outPipe, errPipe, parentOut, parentWrite,
                   valid_targets_count, stageFailed, dirs, to_delete>>

(* ---------------------------------------------------------------------- *)
(* log() and run_rclone_cmd()                                              *)
(* ---------------------------------------------------------------------- *)
Entry(level, msg, arg) == [level |-> level, msg |-> msg, arg |-> arg]
INFO(msg) == Entry("INFO", msg, "")
WARN(msg) == Entry("WARN", msg, "")
ERROR(msg) == Entry("ERROR", msg, "")

\* log() called once per line of `lines`: ensure_temp_dir, print, append
Log(lines) ==
    /\ tempDir' = (tempDir \/ lines # <<>>)
    /\ printed' = printed \o lines
    /\ logFile' = logFile \o lines

\* exit codes of an rclone command run with subprocess.run
RcloneCodes == {0, 1}

\* the two lines run_rclone_cmd logs when the command exits nonzero
RcloneLines(rc) ==
    IF rc # 0
    THEN <<ERROR("Rclone command failed"), ERROR("Rclone Stderr")>>
    ELSE <<>>

\* run_rclone_cmd that never raises, whatever the exit code
RcloneNeverRaises(rc, check) == FALSE

\* run_rclone_cmd raises: nonzero exit and check
RcloneRaises(rc, check) == rc # 0 /\ check

Call(op, arg, rc) == [op |-> op, arg |-> arg, rc |-> rc]

(* ---------------------------------------------------------------------- *)
(* __main__ and the head of perform_backup                                 *)
(* ---------------------------------------------------------------------- *)
Init ==
    /\ pc = "main"
    /\ exitStatus = -1
    /\ maxBackups \in 0..MaxLimit
    /\ tempDir \in BOOLEAN
    /\ logFile = <<>>
    /\ printed = <<>>
    /\ calls = <<>>
    /\ exc = "none"
    /\ proc = [p \in Stages |-> NoProc]
    /\ outPipe = [p \in Stages |-> 0]
    /\ errPipe = [p \in Stages |-> 0]
    /\ parentOut = {}
    /\ parentWrite = {}
    /\ valid_targets_count = 0
    /\ stageFailed = FALSE
    /\ dirs = <<>>
    /\ to_delete = <<>>

\* lines 231-234: the privilege check
Main ==
    /\ pc = "main"
    /\ \E euid \in {0, 1000} :
        IF euid # 0
        THEN /\ printed' = Append(printed, Entry("", "Error: Must run as root.", ""))
             /\ exitStatus' = 1
             /\ pc' = "exited"
        ELSE /\ pc' = "perform_backup"
             /\ UNCHANGED <<printed, exitStatus>>
    /\ UNCHANGED <<maxBackups, tempDir, logFile, calls, exc, procVars,
                   valid_targets_count, stageFailed, retVars>>

\* the head of perform_backup going to the dump job without the mkdir call
PerformBackupStartNoMkdir ==
    /\ pc = "perform_backup"
    /\ Log(<<INFO("Backup job started")>>)
    /\ pc' = "db_start"
    /\ UNCHANGED <<exitStatus, maxBackups, calls, exc, procVars,
                   valid_targets_count, stageFailed, retVars>>

\* lines 202-203
PerformBackupStart ==
    /\ pc = "perform_backup"
    /\ Log(<<INFO("Backup job started")>>)
    /\ pc' = "mkdir"
    /\ UNCHANGED <<exitStatus, maxBackups, calls, exc, procVars,
                   valid_targets_count, stageFailed, retVars>>

\* the directory creation issued with check=True
MkdirRemoteChecked ==
    /\ pc = "mkdir"
    /\ \E rc \in RcloneCodes :
        /\ calls' = Append(calls, Call("mkdir", CurrentName, rc))
        /\ Log(RcloneLines(rc))
        /\ IF RcloneRaises(rc, TRUE)
           THEN exc' = "Rclone failed" /\ pc' = "except"
           ELSE exc' = exc /\ pc' = "db_start"
    /\ UNCHANGED <<exitStatus, maxBackups, procVars, valid_targets_count, stageFailed,
                   retVars>>

\* line 207: run_rclone_cmd(["mkdir", ...], check=False)
MkdirRemote ==
    /\ pc = "mkdir"
    /\ \E rc \in RcloneCodes :
        /\ calls' = Append(calls, Call("mkdir", CurrentName, rc))
        /\ Log(RcloneLines(rc))
        /\ IF RcloneRaises(rc, FALSE)
           THEN exc' = "Rclone failed" /\ pc' = "except"
           ELSE exc' = exc /\ pc' = "db_start"
    /\ UNCHANGED <<exitStatus, maxBackups, procVars, valid_targets_count, stageFailed,
                   retVars>>

(* ---------------------------------------------------------------------- *)
(* backup_database_stream                                                  *)
(* ---------------------------------------------------------------------- *)
\* Popen that leaves the parent's copy of the write end open
PopenKeepsWriteEnd(p) ==
    /\ proc' = [proc EXCEPT ![p] = Fresh]
    /\ parentOut' = parentOut \cup {p}
    /\ parentWrite' = parentWrite \cup {p}
    /\ UNCHANGED <<outPipe, errPipe>>

\* subprocess.Popen(..., stdout=PIPE, stderr=PIPE): the child runs and the
\* parent holds the read end of its stdout; its copy of the write end is
\* closed before Popen returns
Popen(p) ==
    /\ proc' = [proc EXCEPT ![p] = Fresh]
    /\ parentOut' = parentOut \cup {p}
    /\ parentWrite' = parentWrite
    /\ UNCHANGED <<outPipe, errPipe>>

\* p.stdout.close() in the parent
CloseStdout(p) ==
    /\ parentOut' = parentOut \ {p}
    /\ UNCHANGED <<proc, outPipe, errPipe, parentWrite>>

\* p.communicate() takes what the child wrote to its captured streams
CommunicateDrain(p) ==
    /\ errPipe[p] > 0
    /\ errPipe' = [errPipe EXCEPT ![p] = @ - 1]
    /\ UNCHANGED <<proc, outPipe, parentOut, parentWrite>>

\* CommunicateReturn that does not wait for the child to exit
CommunicateReturnNoWait(p) ==
    /\ parentOut' = parentOut \ {p}
    /\ UNCHANGED <<proc, outPipe, errPipe, parentWrite>>

\* p.communicate() returns: end-of-stream on the captured streams (the
\* child has exited and its pipes are empty), the child is reaped
CommunicateReturn(p) ==
    /\ proc[p].st = "exit"
    /\ errPipe[p] = 0
    /\ parentOut' = parentOut \ {p}
    /\ UNCHANGED <<proc, outPipe, errPipe, parentWrite>>

\* the job function returns or raises: its Popen objects are dropped.  The
\* record of a reaped child goes and so does a pipe nobody holds any more;
\* a child that still runs stays
Release(job) ==
    /\ proc' = [p \in Stages |->
                  IF p \in job /\ proc[p].st = "exit" THEN NoProc ELSE proc[p]]
    /\ outPipe' = [p \in Stages |->
                  IF /\ p \in job \cap Piped
                     /\ ~Alive(p)
                     /\ ~Alive(Downstream(p))
                  THEN 0 ELSE outPipe[p]]
    /\ parentOut' = parentOut \ job
    /\ parentWrite' = parentWrite \ job
    /\ UNCHANGED errPipe

\* lines 63-65
DbStart ==
    /\ pc = "db_start"
    /\ Log(<<INFO("Starting Database Stream")>>)
    /\ pc' = "db_popen1"
    /\ UNCHANGED <<exitStatus, maxBackups, calls, exc, procVars,
                   valid_targets_count, stageFailed, retVars>>

\* lines 71-76, 79-84, 87-92: the three Popen calls, in order
DbPopen ==
    /\ \E step \in { <<"db_popen1", "p1_dump", "db_popen2">>,
                     <<"db_popen2", "p2_gzip", "db_popen3">>,
                     <<"db_popen3", "p3_rclone", "db_close1">> } :
        /\ pc = step[1]
        /\ Popen(step[2])
        /\ pc' = step[3]
    /\ UNCHANGED <<exitStatus, maxBackups, tempDir, logFile, printed, calls,
                   exc, valid_targets_count, stageFailed, retVars>>

\* lines 95-96: p1_dump.stdout.close(); p2_gzip.stdout.close()
DbClose ==
    /\ \E step \in { <<"db_close1", "p1_dump", "db_close2">>,
                     <<"db_close2", "p2_gzip", "db_comm3">> } :
        /\ pc = step[1]
        /\ CloseStdout(step[2])
        /\ pc' = step[3]
    /\ UNCHANGED <<exitStatus, maxBackups, tempDir, logFile, printed, calls,
                   exc, valid_targets_count, stageFailed, retVars>>

\* the communicate() calls of lines 99-101 and the stage each waits on
DbWaits == { <<"db_comm3", "p3_rclone", "db_comm2">>,
             <<"db_comm2", "p2_gzip", "db_comm1">>,
             <<"db_comm1", "p1_dump", "db_check">> }

\* lines 99-101, while the call reads the captured streams
DbCommunicateDrain ==
    /\ \E step \in DbWaits :
        /\ pc = step[1]
        /\ CommunicateDrain(step[2])
    /\ UNCHANGED <<pc, exitStatus, maxBackups, tempDir, logFile, printed,
                   calls, exc, valid_targets_count, stageFailed, retVars>>

\* lines 99-101, the call returning
DbCommunicateReturn ==
    /\ \E step \in DbWaits :
        /\ pc = step[1]
        /\ CommunicateReturn(step[2])
        /\ pc' = step[3]
    /\ UNCHANGED <<exitStatus, maxBackups, tempDir, logFile, printed, calls,
                   exc, valid_targets_count, stageFailed, retVars>>

\* DbFailure without the check of the dump stage
DbFailureUploadOnly ==
    IF proc["p3_rclone"].rc # 0 THEN "Rclone DB Upload Failed" ELSE "none"

\* a stage of the dump pipeline has exited nonzero (none is tolerated)
DbStageFailed == \E p \in DbStages : proc[p].rc # 0

\* lines 104-108: the exception backup_database_stream raises, or "none"
DbFailure ==
    IF proc["p3_rclone"].rc # 0 THEN "Rclone DB Upload Failed"
    ELSE IF proc["p1_dump"].rc # 0 THEN "Mysqldump Failed"
    ELSE "none"

\* lines 103-110
DbCheck ==
    /\ pc = "db_check"
    /\ IF DbFailure # "none"
       THEN /\ exc' = DbFailure
            /\ pc' = "except"
            /\ UNCHANGED <<tempDir, logFile, printed>>
       ELSE /\ Log(<<INFO("Database stream completed successfully.")>>)
            /\ pc' = "files_start"
            /\ exc' = exc
    /\ stageFailed' = (stageFailed \/ DbStageFailed)
    /\ Release(DbStages)
    /\ UNCHANGED <<exitStatus, maxBackups, calls, valid_targets_count,
                   retVars>>

(* ---------------------------------------------------------------------- *)
(* backup_files_stream                                                     *)
(* ---------------------------------------------------------------------- *)
Targets == 1..NumTargets

\* one WARN line per configured target whose path does not exist
RECURSIVE NotFoundLines(_)
NotFoundLines(n) ==
    IF n = 0 THEN <<>> ELSE <<WARN("Not Found")>> \o NotFoundLines(n - 1)

\* FilesStart raising when no target exists instead of returning
FilesStartRaisesOnEmpty ==
    /\ pc = "files_start"
    /\ \E existing \in SUBSET Targets :
        LET count == Cardinality(existing)
            head == <<INFO("Starting File Stream")>>
                        \o NotFoundLines(NumTargets - count)
        IN  /\ valid_targets_count' = count
            /\ IF count = 0
               THEN /\ Log(head \o <<ERROR("No valid targets found to backup! Aborting file stream.")>>)
                    /\ exc' = "No valid targets"
                    /\ pc' = "except"
               ELSE /\ Log(head)
                    /\ exc' = exc
                    /\ pc' = "files_popen1"
    /\ UNCHANGED <<exitStatus, maxBackups, calls, procVars, stageFailed,
                   retVars>>

\* lines 114-133: the targets are resolved; none existing, the job returns
FilesStart ==
    /\ pc = "files_start"
    /\ \E existing \in SUBSET Targets :
        LET count == Cardinality(existing)
            head == <<INFO("Starting File Stream")>>
                        \o NotFoundLines(NumTargets - count)
        IN  /\ valid_targets_count' = count
            /\ IF count = 0
               THEN /\ Log(head \o <<ERROR("No valid targets found to backup! Aborting file stream.")>>)
                    /\ pc' = "retention"
               ELSE /\ Log(head)
                    /\ pc' = "files_popen1"
    /\ UNCHANGED <<exitStatus, maxBackups, calls, exc, procVars, stageFailed,
                   retVars>>

\* lines 138-142, 145-150: the two Popen calls, in order
FilesPopen ==
    /\ \E step \in { <<"files_popen1", "p1_tar", "files_popen2">>,
                     <<"files_popen2", "p2_rclone", "files_close">> } :
        /\ pc = step[1]
        /\ Popen(step[2])
        /\ pc' = step[3]
    /\ UNCHANGED <<exitStatus, maxBackups, tempDir, logFile, printed, calls,
                   exc, valid_targets_count, stageFailed, retVars>>

\* line 153: p1_tar.stdout.close()
FilesClose ==
    /\ pc = "files_close"
    /\ CloseStdout("p1_tar")
    /\ pc' = "files_comm2"
    /\ UNCHANGED <<exitStatus, maxBackups, tempDir, logFile, printed, calls,
                   exc, valid_targets_count, stageFailed, retVars>>

\* the communicate() calls of lines 156-157 and the stage each waits on
FilesWaits == { <<"files_comm2", "p2_rclone", "files_comm1">>,
                <<"files_comm1", "p1_tar", "files_check">> }

\* lines 156-157, while the call reads the captured streams
FilesCommunicateDrain ==
    /\ \E step \in FilesWaits :
        /\ pc = step[1]
        /\ CommunicateDrain(step[2])
    /\ UNCHANGED <<pc, exitStatus, maxBackups, tempDir, logFile, printed,
                   calls, exc, valid_targets_count, stageFailed, retVars>>

\* lines 156-157, the call returning
FilesCommunicateReturn ==
    /\ \E step \in FilesWaits :
        /\ pc = step[1]
        /\ CommunicateReturn(step[2])
        /\ pc' = step[3]
    /\ UNCHANGED <<exitStatus, maxBackups, tempDir, logFile, printed, calls,
                   exc, valid_targets_count, stageFailed, retVars>>

\* FilesFailure with the archive stage strict: any nonzero status raises
FilesFailureStrictTar ==
    IF proc["p2_rclone"].rc # 0 THEN "File stream upload failed"
    ELSE IF proc["p1_tar"].rc # 0 THEN "Tar compression failed"
    ELSE "none"

\* a stage of the archive pipeline has exited with a status that is not
\* tolerated: the upload nonzero, the archive neither 0 nor 1
FilesStageFailed ==
    \/ proc["p2_rclone"].rc # 0
    \/ proc["p1_tar"].rc \notin {0, 1}

\* lines 160-170: the exception backup_files_stream raises, or "none"
FilesFailure ==
    IF proc["p2_rclone"].rc # 0 THEN "File stream upload failed"
    ELSE IF proc["p1_tar"].rc > 1 THEN "Tar compression failed"
    ELSE "none"

\* lines 160-172: what the checks log
FilesCheckLines ==
    IF proc["p2_rclone"].rc # 0 THEN <<ERROR("Rclone File Upload Failed")>>
    ELSE IF proc["p1_tar"].rc > 1 THEN <<ERROR("Tar Fatal Error")>>
    ELSE IF proc["p1_tar"].rc = 1
         THEN <<WARN("Tar warning (files changed during read), continuing...")>>
    ELSE <<>>

\* lines 159-174
FilesCheck ==
    /\ pc = "files_check"
    /\ IF FilesFailure # "none"
       THEN /\ Log(FilesCheckLines)
            /\ exc' = FilesFailure
            /\ pc' = "except"
       ELSE /\ Log(FilesCheckLines \o <<INFO("File stream completed successfully.")>>)
            /\ exc' = exc
            /\ pc' = "retention"
    /\ stageFailed' = (stageFailed \/ FilesStageFailed)
    /\ Release(FileStages)
    /\ UNCHANGED <<exitStatus, maxBackups, calls, valid_targets_count,
                   retVars>>

(* ---------------------------------------------------------------------- *)
(* manage_retention                                                        *)
(* ---------------------------------------------------------------------- *)
\* BackupDirs without the filter on the name
BackupDirsUnfiltered(listing) == SortByName(listing)

\* lines 185-186
BackupDirs(listing) == SortByName(FilterBackupDirs(listing))

\* lines 178-192, 198-199: list, filter, sort, select
RetentionList ==
    /\ pc = "retention"
    /\ \E rc \in RcloneCodes :
        \E listing \in (IF rc = 0 THEN Listings ELSE {<<>>}) :
            LET backup_dirs == BackupDirs(listing)
                head == <<INFO("Checking retention policy...")>> \o RcloneLines(rc)
            IN  /\ calls' = Append(calls, Call("lsjson", <<>>, rc))
                /\ IF RcloneRaises(rc, TRUE)
                   THEN /\ Log(head)
                        /\ exc' = "Rclone failed"
                        /\ pc' = "except"
                        /\ UNCHANGED <<dirs, to_delete>>
                   ELSE IF Len(backup_dirs) > maxBackups
                   THEN /\ Log(head \o <<INFO("Found backup folders."),
                                         INFO("Retention exceeded. Deleting old folders.")>>)
                        /\ dirs' = listing
                        /\ to_delete' = ToDelete(backup_dirs, maxBackups)
                        /\ exc' = exc
                        /\ pc' = "purge"
                   ELSE /\ Log(head \o <<INFO("Found backup folders."),
                                         INFO("Retention limit not reached.")>>)
                        /\ dirs' = listing
                        /\ to_delete' = <<>>
                        /\ exc' = exc
                        /\ pc' = "finally"
    /\ UNCHANGED <<exitStatus, maxBackups, procVars, valid_targets_count, stageFailed>>

\* lines 194-197: one iteration of the loop over to_delete
RetentionPurge ==
    /\ pc = "purge"
    /\ \E rc \in RcloneCodes :
        LET folder_name == Head(to_delete)
        IN  /\ calls' = Append(calls, Call("purge", folder_name, rc))
            /\ Log(<<INFO("Purging old backup folder")>> \o RcloneLines(rc))
            /\ IF RcloneRaises(rc, TRUE)
               THEN /\ exc' = "Rclone failed"
                    /\ pc' = "except"
                    /\ UNCHANGED to_delete
               ELSE /\ exc' = exc
                    /\ to_delete' = Tail(to_delete)
                    /\ pc' = IF Tail(to_delete) = <<>> THEN "finally" ELSE "purge"
    /\ UNCHANGED <<exitStatus, maxBackups, procVars, valid_targets_count,
                   stageFailed, dirs>>

(* ---------------------------------------------------------------------- *)
(* perform_backup: except and finally                                      *)
(* ---------------------------------------------------------------------- *)
\* lines 216-217
Except ==
    /\ pc = "except"
    /\ Log(<<Entry("ERROR", "Backup failed", exc)>>)
    /\ exc' = "none"
    /\ pc' = "finally"
    /\ UNCHANGED <<exitStatus, maxBackups, calls, procVars,
                   valid_targets_count, stageFailed, retVars>>

\* line 220
FinallyLog ==
    /\ pc = "finally"
    /\ Log(<<INFO("Backup finished. Uploading logs and cleaning up.")>>)
    /\ pc' = "upload_log"
    /\ UNCHANGED <<exitStatus, maxBackups, calls, exc, procVars,
                   valid_targets_count, stageFailed, retVars>>

\* FinallyUpload skipping the copy in a run that logged a failure
FinallyUploadOnSuccessOnly ==
    /\ pc = "upload_log"
    /\ IF \E i \in 1..Len(printed) : printed[i].level = "ERROR"
       THEN UNCHANGED calls
       ELSE \E rc \in RcloneCodes :
               calls' = Append(calls, Call("copy", CurrentName, rc))
    /\ pc' = "cleanup"
    /\ UNCHANGED <<exitStatus, maxBackups, tempDir, logFile, printed, exc,
                   procVars, valid_targets_count, stageFailed, retVars>>

\* FinallyUpload issued through run_rclone_cmd(check=False), which logs a
\* nonzero exit after the copy has run
FinallyUploadLogged ==
    /\ pc = "upload_log"
    /\ \E rc \in RcloneCodes :
        /\ calls' = Append(calls, Call("copy", CurrentName, rc))
        /\ Log(RcloneLines(rc))
    /\ pc' = "cleanup"
    /\ UNCHANGED <<exitStatus, maxBackups, exc, procVars,
                   valid_targets_count, stageFailed, retVars>>

\* lines 222-225: subprocess.run(["rclone", "copy", ...], check=False)
FinallyUpload ==
    /\ pc = "upload_log"
    /\ \E rc \in RcloneCodes :
        calls' = Append(calls, Call("copy", CurrentName, rc))
    /\ pc' = "cleanup"
    /\ UNCHANGED <<exitStatus, maxBackups, tempDir, logFile, printed, exc,
                   procVars, valid_targets_count, stageFailed, retVars>>

\* FinallyCleanup with the existence test inverted: nothing is removed
FinallyCleanupInverted ==
    /\ pc = "cleanup"
    /\ IF ~tempDir
       THEN tempDir' = FALSE /\ logFile' = <<>>
       ELSE UNCHANGED <<tempDir, logFile>>
    /\ pc' = "done"
    /\ exitStatus' = 0
    /\ UNCHANGED <<maxBackups, printed, calls, exc, procVars,
                   valid_targets_count, stageFailed, retVars>>

\* FinallyCleanup propagating a logged failure as exit status 1
FinallyCleanupExitOnFailure ==
    /\ pc = "cleanup"
    /\ IF tempDir
       THEN tempDir' = FALSE /\ logFile' = <<>>
       ELSE UNCHANGED <<tempDir, logFile>>
    /\ pc' = "done"
    /\ exitStatus' =
          IF \E i \in 1..Len(printed) : printed[i].msg = "Backup failed"
          THEN 1 ELSE 0
    /\ UNCHANGED <<maxBackups, printed, calls, exc, procVars,
                   valid_targets_count, stageFailed, retVars>>

\* lines 227-228, then perform_backup returns and the process exits 0
FinallyCleanup ==
    /\ pc = "cleanup"
    /\ IF tempDir
       THEN tempDir' = FALSE /\ logFile' = <<>>
       ELSE UNCHANGED <<tempDir, logFile>>
    /\ pc' = "done"
    /\ exitStatus' = 0
    /\ UNCHANGED <<maxBackups, printed, calls, exc, procVars,
                   valid_targets_count, stageFailed, retVars>>

(* ---------------------------------------------------------------------- *)
(* Specification                                                           *)
(* ---------------------------------------------------------------------- *)
Parent ==
    \/ Main
    \/ PerformBackupStart
    \/ MkdirRemote
    \/ DbStart
    \/ DbPopen
    \/ DbClose
    \/ DbCommunicateDrain
    \/ DbCommunicateReturn
    \/ DbCheck
    \/ FilesStart
    \/ FilesPopen
    \/ FilesClose
    \/ FilesCommunicateDrain
    \/ FilesCommunicateReturn
    \/ FilesCheck
    \/ RetentionList
    \/ RetentionPurge
    \/ Except
    \/ FinallyLog
    \/ FinallyUpload
    \/ FinallyCleanup

Child ==
    \E p \in Stages :
        \/ StageWriteOut(p)
        \/ StageWriteErr(p)
        \/ StageRead(p)
        \/ StageExit(p)
        \/ StageKill(p)

Next == Parent \/ Child

Spec == Init /\ [][Next]_vars

(* ---------------------------------------------------------------------- *)
(* Properties                                                              *)
(* ---------------------------------------------------------------------- *)
\* backup_database_stream returns without raising
DbJobReturns == pc = "db_check" /\ pc' = "files_start"

\* backup_files_stream returns without raising, its pipeline having run
FilesJobReturns == pc = "files_check" /\ pc' = "retention"

\* C1: the Database Dump Job completes without raising only if the dump,
\* the compress and the upload stage all exited 0.
C1_DbJobNeedsAllStagesZero ==
    [][DbJobReturns =>
         /\ proc["p1_dump"].rc = 0
         /\ proc["p2_gzip"].rc = 0
         /\ proc["p3_rclone"].rc = 0]_vars

\* C2: the File Archive Job completes without raising only if the upload
\* stage exited 0 and the archive stage's status is 0 or 1; a negative
\* status (killed by a signal) is not in the tolerance set.
C2_FilesJobNeedsToleratedStatus ==
    [][FilesJobReturns =>
         /\ proc["p2_rclone"].rc = 0
         /\ proc["p1_tar"].rc \in {0, 1}]_vars

\* the name begins with the seven characters of 'backup_'
MatchesConvention(name) ==
    /\ Len(name) >= 7
    /\ \A i \in 1..7 : name[i] = Prefix[i]

\* a is lexicographically smaller than b: they agree on the first k
\* characters, and then a ends or has the smaller character
LexBefore(a, b) ==
    \E k \in 0..Len(a) :
        /\ k <= Len(b)
        /\ \A i \in 1..k : a[i] = b[i]
        /\ \/ k = Len(a) /\ k < Len(b)
           \/ k < Len(a) /\ k < Len(b) /\ a[k + 1] < b[k + 1]

\* the names of the listing that match the convention
Matching == { dirs[i] : i \in { j \in 1..Len(dirs) : MatchesConvention(dirs[j]) } }

\* the n lexicographically smallest names of S
Smallest(S, n) == { x \in S : Cardinality({ y \in S : LexBefore(y, x) }) < n }

IsPurge(c) == c.op = "purge"
IsFailed(c) == c.rc # 0

\* the purge commands issued so far, in order
PurgeCalls == SelectSeq(calls, IsPurge)
PurgedNames == { PurgeCalls[i].arg : i \in 1..Len(PurgeCalls) }

\* the listing of the retention pass succeeded
Listed == \E i \in 1..Len(calls) : calls[i].op = "lsjson" /\ calls[i].rc = 0

\* the retention pass is over
AfterRetention == pc \in {"finally", "upload_log", "cleanup", "done"}

\* C3: after a retention pass with limit N over K matching directories in
\* which every delete succeeded: if K > N the deletes issued are exactly
\* the K-N lexicographically smallest matching names, each once, and N
\* matching directories remain; if K <= N no delete is issued.
C3_RetentionDeletesOldestBeyondLimit ==
    (AfterRetention /\ Listed /\ SelectSeq(PurgeCalls, IsFailed) = <<>>) =>
        LET K == Cardinality(Matching)
            N == maxBackups
        IN  IF K > N
            THEN /\ PurgedNames = Smallest(Matching, K - N)
                 /\ Len(PurgeCalls) = K - N
                 /\ Cardinality(Matching \ PurgedNames) = N
            ELSE PurgeCalls = <<>>

\* a pass that deleted two directories out of a listing that was not in
\* order and held a name outside the convention
C3_Witness ==
    /\ pc = "done"
    /\ Listed
    /\ Len(PurgeCalls) = 2
    /\ SelectSeq(PurgeCalls, IsFailed) = <<>>
    /\ Cardinality(Matching) = maxBackups + 2
    /\ Len(dirs) > Cardinality(Matching)
    /\ \E i \in 1..Len(dirs) - 1 : LexBefore(dirs[i + 1], dirs[i])

\* C4: a failed delete is logged and does not abort the pass: a delete is
\* still issued for every selected entry after it.
C4_FailedDeleteDoesNotAbort ==
    (pc = "done" /\ SelectSeq(PurgeCalls, IsFailed) # <<>>) =>
        PurgedNames = Smallest(Matching, Cardinality(Matching) - maxBackups)

\* a step of some stage other than being killed from outside
StageStep ==
    \E p \in Stages :
        \/ StageWriteOut(p)
        \/ StageWriteErr(p)
        \/ StageRead(p)
        \/ StageExit(p)

\* the parent is inside a communicate() call
ParentWaiting ==
    pc \in {"db_comm3", "db_comm2", "db_comm1", "files_comm2", "files_comm1"}

\* C5: the parent's wait for the stages of a pipeline never deadlocks: no
\* reachable state has the parent blocked in communicate() and every
\* living stage blocked in a read or a write.
C5_PipelineWaitNeverDeadlocks ==
    ~(ParentWaiting /\ ~ENABLED Parent /\ ~ENABLED StageStep)

\* the exceptions backup_database_stream raises
DbExceptions == {"Rclone DB Upload Failed", "Mysqldump Failed"}

\* the Database Dump Job has failed in this run: its exception propagates
\* or the orchestrator has logged it
DbJobFailed ==
    \/ exc \in DbExceptions
    \/ \E i \in 1..Len(printed) :
          printed[i].msg = "Backup failed" /\ printed[i].arg \in DbExceptions

IsRetentionCall(c) == c.op \in {"lsjson", "purge"}
IsCopy(c) == c.op = "copy"

\* the dump stage has exited 2 and the job is about to look at it
DumpExitedTwo == pc = "db_check" /\ proc["p1_dump"].rc = 2

\* the order of the steps of perform_backup after a raised failure
FailurePath ==
    { <<"except", "finally">>, <<"finally", "upload_log">>,
      <<"upload_log", "cleanup">>, <<"cleanup", "done">> }

\* C6 (Scenario B): when the dump stage exits 2 the Database Dump Job
\* fails; once it has failed no process of the File Archive Job is spawned
\* and no list or delete call is issued, and the run goes on, never stuck
\* and in this order, to log the failure, upload the log and remove the
\* scratch workspace: it returns with the log copied once and no workspace.
C6_DumpFailureSkipsRestButNotCleanup ==
    /\ [][DumpExitedTwo => (pc' = "except" /\ exc' \in DbExceptions)]_vars
    /\ [](DbJobFailed =>
            /\ \A p \in FileStages : proc[p].st = "none"
            /\ SelectSeq(calls, IsRetentionCall) = <<>>)
    /\ [][(DbJobFailed /\ pc' # pc) => <<pc, pc'>> \in FailurePath]_vars
    /\ []((DbJobFailed /\ pc # "done") => ENABLED Parent)
    /\ []((DbJobFailed /\ pc = "done") =>
            /\ Len(SelectSeq(calls, IsCopy)) = 1
            /\ ~tempDir)

\* a run that ended after the dump stage exited 2 (the upload stage 0)
C6_Witness ==
    /\ pc = "done"
    /\ \E i \in 1..Len(printed) :
          printed[i].msg = "Backup failed" /\ printed[i].arg = "Mysqldump Failed"

\* C7: when perform_backup returns the scratch workspace does not exist,
\* whatever the outcome of the steps before.
C7_NoWorkspaceAfterReturn ==
    pc = "done" => ~tempDir

\* a run that returned after the remote mkdir, a delete and the log upload
\* all failed
C7_Witness ==
    /\ pc = "done"
    /\ ~tempDir
    /\ \E i, j, k \in 1..Len(calls) :
        /\ calls[i].op = "mkdir" /\ calls[i].rc # 0
        /\ calls[j].op = "purge" /\ calls[j].rc # 0
        /\ calls[k].op = "copy" /\ calls[k].rc # 0

\* the copies of the log artifact issued so far
CopyCalls == SelectSeq(calls, IsCopy)

\* C8: the copy of the log artifact to the run's remote directory is
\* issued exactly once per invocation of perform_backup: never twice, not
\* before the finally block, and once by the time perform_backup returns,
\* whether the steps succeeded or failed.
C8_LogUploadedExactlyOnce ==
    /\ Len(CopyCalls) <= 1
    /\ \A i \in 1..Len(CopyCalls) : CopyCalls[i].arg = CurrentName
    /\ pc = "done" => Len(CopyCalls) = 1
    /\ pc \notin {"cleanup", "done"} => CopyCalls = <<>>

\* a run that returned with the log uploaded after a job had failed
C8_Witness ==
    /\ pc = "done"
    /\ Len(CopyCalls) = 1
    /\ \E i \in 1..Len(printed) : printed[i].msg = "Backup failed"

IsError(e) == e.level = "ERROR"
IsWarn(e) == e.level = "WARN"
IsTarWarning(e) ==
    e = WARN("Tar warning (files changed during read), continuing...")

\* C9: when no configured target exists the File Archive Job spawns no
\* process, returns without raising, logs exactly one ERROR line, and the
\* orchestrator goes on to the Retention Manager; an archive or upload
\* process exists only when some target does.
C9_NoTargetsIsSoftSkip ==
    /\ [][(pc = "files_start" /\ valid_targets_count' = 0) =>
            /\ pc' = "retention"
            /\ exc' = "none"
            /\ proc' = proc
            /\ Len(SelectSeq(printed', IsError))
                   = Len(SelectSeq(printed, IsError)) + 1
            /\ Len(SelectSeq(logFile', IsError))
                   = Len(SelectSeq(logFile, IsError)) + 1]_vars
    /\ [](\A p \in FileStages :
            proc[p].st # "none" => valid_targets_count > 0)
    /\ [](pc = "retention" => ENABLED RetentionList)

\* the job has returned with no target found
C9_Witness ==
    /\ pc = "retention"
    /\ valid_targets_count = 0
    /\ printed[Len(printed)]
         = ERROR("No valid targets found to backup! Aborting file stream.")

\* the upload stage exited 0 and the job is about to look at the statuses
UploadOk == pc = "files_check" /\ proc["p2_rclone"].rc = 0

\* C10: with upload exit 0, archive exit 1 makes the File Archive Job
\* succeed with exactly one WARN line logged for it, and the Retention
\* Manager runs next; archive exit 2 or more makes the job fail.
C10_ArchiveWarningVersusFailure ==
    /\ [][(UploadOk /\ proc["p1_tar"].rc = 1) =>
            /\ pc' = "retention"
            /\ exc' = "none"
            /\ Len(SelectSeq(printed', IsWarn))
                   = Len(SelectSeq(printed, IsWarn)) + 1
            /\ Len(SelectSeq(printed', IsTarWarning))
                   = Len(SelectSeq(printed, IsTarWarning)) + 1]_vars
    /\ [][(UploadOk /\ proc["p1_tar"].rc >= 2) =>
            /\ pc' = "except"
            /\ exc' = "Tar compression failed"]_vars
    /\ [](pc = "retention" => ENABLED RetentionList)

\* the job has returned after archive exit 1: the retention pass is next
C10_Witness ==
    /\ pc = "retention"
    /\ valid_targets_count > 0
    /\ SelectSeq(printed, IsTarWarning) # <<>>

\* C11: jobs are strictly sequential: while a process of the File Archive
\* Job exists every process of the Database Dump Job's pipeline has
\* terminated, and the stages of at most one pipeline are alive.
C11_JobsStrictlySequential ==
    /\ (\E p \in FileStages : proc[p].st # "none") =>
           \A q \in DbStages : ~Alive(q)
    /\ \/ \A q \in DbStages : ~Alive(q)
       \/ \A p \in FileStages : ~Alive(p)

\* the archive pipeline runs, the database job having completed before
C11_Witness ==
    /\ Alive("p1_tar")
    /\ Alive("p2_rclone")
    /\ \E i \in 1..Len(printed) :
          printed[i] = INFO("Database stream completed successfully.")

\* end-of-stream is delivered to reader p in this step: a blocked read
\* returns with nothing, or p finishes normally
EosDelivered(p) ==
    \/ proc[p].st = "rd" /\ proc'[p].st = "run" /\ outPipe' = outPipe
    \/ proc[p].st = "run" /\ proc'[p] = Exited(0)

\* C12: a downstream stage observes end-of-stream on its input when, and
\* only when, its upstream stage has finished: the parent never holds a
\* write end, a reader is at end-of-stream exactly when its upstream stage
\* has exited and the pipe is drained, a reader blocked on a finished
\* upstream is released, and end-of-stream is never delivered while the
\* upstream stage is running.
C12_EndOfStreamIffUpstreamFinished ==
    /\ [](/\ parentWrite = {}
          /\ \A p \in Readers : Alive(p) =>
                /\ proc[Upstream(p)].st # "none"
                /\ AtEof(p) <=> /\ proc[Upstream(p)].st = "exit"
                                /\ outPipe[Upstream(p)] = 0
                /\ (proc[p].st = "rd" /\ proc[Upstream(p)].st = "exit") =>
                       ENABLED StageRead(p))
    /\ [][\A p \in Readers :
             EosDelivered(p) => proc[Upstream(p)].st = "exit"]_vars

\* all stages spawned and the parent's handles closed, the dump has finished
\* and the compressor, blocked on its input, is at end-of-stream
C12_Witness ==
    /\ pc = "db_comm3"
    /\ proc["p1_dump"].st = "exit"
    /\ proc["p2_gzip"].st = "rd"
    /\ AtEof("p2_gzip")

\* the call that creates the remote run directory returned nonzero
MkdirFailed == calls # <<>> /\ calls[1].op = "mkdir" /\ calls[1].rc # 0

\* C13: Scenario E: when the call that creates the remote run directory
\* returns nonzero the failure is logged (two ERROR lines) and not raised,
\* and the run stands at the start of the Database Dump Job in the state it
\* has there after a successful creation, the job being ready to start.
C13_MkdirFailureIsLoggedNotRaised ==
    /\ [][pc = "mkdir" /\ pc' # "mkdir" =>
             /\ pc' = "db_start"
             /\ exc' = "none"
             /\ calls' = Append(calls, Call("mkdir", CurrentName, 0))
                    => printed' = printed
             /\ calls' = Append(calls, Call("mkdir", CurrentName, 1))
                    => /\ printed' = printed \o RcloneLines(1)
                       /\ logFile' = logFile \o RcloneLines(1)
                       /\ \A i \in 1..2 : IsError(RcloneLines(1)[i])]_vars
    /\ [](pc = "db_start" =>
             /\ Len(calls) = 1
             /\ calls[1].op = "mkdir"
             /\ exc = "none"
             /\ exitStatus = -1
             /\ tempDir
             /\ proc = [p \in Stages |-> NoProc]
             /\ ENABLED DbStart)

\* the creation failed, was logged, and the dump job is about to start
C13_Witness ==
    /\ pc = "db_start"
    /\ MkdirFailed
    /\ printed[Len(printed)] = ERROR("Rclone Stderr")

\* the orchestrator has caught and logged a failure of a job or of the
\* retention pass
FailureLogged == \E i \in 1..Len(printed) : printed[i].msg = "Backup failed"

\* C14: the process exits with status 0 whenever the privilege check has
\* passed, also when a failure was caught and logged, and never with
\* another status; it exits 1 if the check fails, straight from the check,
\* and then no step has touched the scratch workspace, the remote store or
\* the log file, and none does afterwards.
C14_ExitStatus ==
    /\ [](/\ exitStatus \in {-1, 0, 1}
          /\ exitStatus = 0 <=> pc = "done"
          /\ exitStatus = 1 <=> pc = "exited"
          /\ pc \in {"done", "exited"} => ~ENABLED Next
          /\ pc = "exited" =>
                /\ calls = <<>>
                /\ logFile = <<>>
                /\ proc = [p \in Stages |-> NoProc]
                /\ printed = <<Entry("", "Error: Must run as root.", "")>>)
    /\ [][pc' = "exited" =>
             /\ pc = "main"
             /\ exitStatus' = 1
             /\ UNCHANGED <<tempDir, logFile, calls, procVars>>]_vars

\* the run has exited 0 although a failure was caught and logged
C14_Witness == pc = "done" /\ exitStatus = 0 /\ FailureLogged

\* the names of the listing
ListedNames == { dirs[i] : i \in 1..Len(dirs) }

\* C15: retention never issues a delete for a listed entry whose name does
\* not match the naming convention: every name selected for deletion and
\* every name a delete was issued for is a listed name that matches it,
\* whatever the listing and the limit.
C15_RetentionDeletesOnlyMatchingNames ==
    /\ \A i \in 1..Len(to_delete) :
          to_delete[i] \in ListedNames /\ MatchesConvention(to_delete[i])
    /\ \A n \in PurgedNames :
          n \in ListedNames /\ MatchesConvention(n)

\* a delete was issued although the listing holds a non-matching name that
\* sorts before the deleted one
C15_Witness ==
    /\ PurgeCalls # <<>>
    /\ \E n \in ListedNames :
          /\ ~MatchesConvention(n)
          /\ LexBefore(n, PurgeCalls[1].arg)

\* the stages that write an object under the run's remote directory
UploadStages == {"p3_rclone", "p2_rclone"}

\* an upload stage has been spawned
UploadStarted == \E p \in UploadStages : proc[p].st # "none"

\* the remote run directory has been created: a mkdir call for it succeeded
RemoteDirCreated ==
    \E i \in 1..Len(calls) :
        calls[i] = Call("mkdir", CurrentName, 0)

\* C16 as stated: whenever an upload stage starts writing under the run's
\* remote directory, that directory has already been created.
C16_RemoteDirCreatedBeforeUpload == UploadStarted => RemoteDirCreated

\* C16 amended: whenever an upload stage exists, the call that creates the
\* run's remote directory has been issued, first of all remote calls and
\* once, and has returned; the directory has been created if that call
\* returned zero.
C16_MkdirIssuedBeforeUpload ==
    /\ UploadStarted =>
          /\ calls # <<>>
          /\ calls[1].op = "mkdir"
          /\ calls[1].arg = CurrentName
          /\ calls[1].rc = 0 => RemoteDirCreated
    /\ \A i \in 2..Len(calls) : calls[i].op # "mkdir"

\* the upload stage of the dump pipeline runs after a failed creation
C16_Witness == Alive("p3_rclone") /\ MkdirFailed

\* no matching name of the listing is later than the current run's name
NoneLaterThanCurrent ==
    \A n \in Matching : n = CurrentName \/ LexBefore(n, CurrentName)

\* C17: a retention pass never deletes the current run's own remote
\* directory, provided the retention limit is at least 1 and no matching
\* name of the listing is later than the current run's name.
C17_RetentionKeepsCurrentRun ==
    (maxBackups >= 1 /\ NoneLaterThanCurrent) =>
        /\ CurrentName \notin PurgedNames
        /\ \A i \in 1..Len(to_delete) : to_delete[i] # CurrentName

\* the pass has deleted older directories from a listing that holds the
\* current run's directory, the limit being at least 1
C17_Witness ==
    /\ AfterRetention
    /\ maxBackups >= 1
    /\ NoneLaterThanCurrent
    /\ CurrentName \in ListedNames
    /\ PurgeCalls # <<>>

\* the exceptions backup_files_stream raises
FilesExceptions == {"File stream upload failed", "Tar compression failed"}

\* a job of this run has raised a failure: its exception propagates or the
\* orchestrator has logged it
JobRaised ==
    \/ exc \in DbExceptions \cup FilesExceptions
    \/ \E i \in 1..Len(printed) :
          /\ printed[i].msg = "Backup failed"
          /\ printed[i].arg \in DbExceptions \cup FilesExceptions

ListingFailed ==
    \E i \in 1..Len(calls) : calls[i].op = "lsjson" /\ calls[i].rc # 0

\* the step in which the listing returns nonzero
ListingFails ==
    pc = "retention" /\ calls' = Append(calls, Call("lsjson", <<>>, 1))

\* C19: when the listing of the retention pass exits nonzero the pass
\* raises; no delete call is issued in that run; the failure is caught by
\* the orchestrator and logged; and the run goes on, never stuck and in
\* this order, to upload the log and remove the scratch workspace.
C19_ListingFailureDeletesNothing ==
    /\ [][ListingFails => (pc' = "except" /\ exc' = "Rclone failed")]_vars
    /\ [](ListingFailed => PurgeCalls = <<>>)
    /\ [][(ListingFailed /\ pc' # pc) => <<pc, pc'>> \in FailurePath]_vars
    /\ []((ListingFailed /\ pc # "done") => ENABLED Parent)
    /\ []((ListingFailed /\ pc # "except") =>
            \E i \in 1..Len(printed) :
                printed[i] = Entry("ERROR", "Backup failed", "Rclone failed"))
    /\ []((ListingFailed /\ pc = "done") =>
            /\ Len(CopyCalls) = 1
            /\ ~tempDir)

\* a run that ended after the listing failed
C19_Witness == pc = "done" /\ ListingFailed /\ PurgeCalls = <<>>

\* the step in which the copy of the log artifact is issued
CopyIssued == calls' # calls /\ IsCopy(calls'[Len(calls')])

\* C20: the log upload is issued after the last log line of the run is
\* written and before the scratch workspace is removed: when the copy is
\* issued the workspace and the log file exist, the file holding every line
\* of the run, the closing line last; once it is issued no log line is
\* written; and the workspace is removed only after it.
C20_UploadAfterLastLineBeforeCleanup ==
    /\ [][CopyIssued =>
            /\ tempDir
            /\ logFile # <<>>
            /\ logFile = printed
            /\ logFile[Len(logFile)] =
                  INFO("Backup finished. Uploading logs and cleaning up.")
            /\ UNCHANGED <<tempDir, logFile, printed>>]_vars
    /\ [][CopyCalls # <<>> =>
            /\ printed' = printed
            /\ logFile' = logFile \/ (logFile' = <<>> /\ ~tempDir')]_vars
    /\ [][(tempDir /\ ~tempDir') =>
            (pc = "cleanup" /\ Len(CopyCalls) = 1)]_vars

\* the log has been uploaded, the workspace and the file still standing
C20_Witness ==
    /\ pc = "cleanup"
    /\ Len(CopyCalls) = 1
    /\ tempDir
    /\ logFile = printed
    /\ Len(logFile) > 1

=============================================================================
